---- MODULE Spec2Model ----
(***************************************************************************)
(* A model of lira's node/builder engine (src/src/core.rs): the byte-level *)
(* escaper and name normalizer, the type-state node (Open / Content /      *)
(* Void), its attribute, content and render operations, and the html()     *)
(* root constructor of src/src/html5.rs.                                   *)
(*                                                                         *)
(* Text is modelled as a sequence of bytes (naturals below 256).  A caller *)
(* supplied &str is a sequence of characters, each one or two bytes long,  *)
(* flattened by as_bytes().                                                *)
(***************************************************************************)
EXTENDS Naturals, Sequences, FiniteSets, TLC

(***************************************************************************)
(* Bytes the code names.                                                   *)
(***************************************************************************)
LT == 60
GT == 62
SP == 32
EQ == 61
DQ == 34
SQ == 39
AMP == 38
SLASH == 47
UNDERSCORE == 95
HYPHEN == 45
UpperA == 65
UpperZ == 90
CaseOffset == 32

EntAmp == <<38, 97, 109, 112, 59>>
EntLt == <<38, 108, 116, 59>>
EntGt == <<38, 103, 116, 59>>
EntQuot == <<38, 113, 117, 111, 116, 59>>
EntApos == <<38, 35, 51, 57, 59>>

(***************************************************************************)
(* Bounds of the model.                                                    *)
(***************************************************************************)
MaxLen == 3
MaxSteps == 3
MaxDepth == 2
MaxItems == 2
MaxApply == 2

(***************************************************************************)
(* write_normalized: the fast path copies the bytes when none is '_' or in *)
(* 'A'..='Z'; otherwise every byte is pushed through the match.            *)
(***************************************************************************)
NormByteOffByOne(b) ==
    IF b >= UpperA /\ b < UpperZ THEN (b + CaseOffset) % 256
    ELSE IF b = UNDERSCORE THEN HYPHEN
    ELSE b

NormByte(b) ==
    IF b >= UpperA /\ b <= UpperZ THEN (b + CaseOffset) % 256
    ELSE IF b = UNDERSCORE THEN HYPHEN
    ELSE b

RECURSIVE NormLoop(_, _, _)
NormLoop(dest, bytes, i) ==
    IF i > Len(bytes) THEN dest
    ELSE NormLoop(Append(dest, NormByte(bytes[i])), bytes, i + 1)

write_normalized(dest, k) ==
    IF ~(\E i \in 1..Len(k) : k[i] = UNDERSCORE \/ (k[i] >= UpperA /\ k[i] <= UpperZ))
    THEN dest \o k
    ELSE NormLoop(dest, k, 1)

(***************************************************************************)
(* write_escaped: the fast path copies the bytes when none of the five     *)
(* characters occurs; otherwise untouched runs bytes[start..i] are copied  *)
(* and each of the five is replaced by its entity.  Indices are 1-based    *)
(* here: the run bytes[start..i] of the code is SubSeq(bytes, start, i-1). *)
(***************************************************************************)
IsSpecial(b) == b \in {AMP, LT, GT, DQ, SQ}

EntityNoApos(b) ==
    CASE b = AMP -> <<EntAmp>>
      [] b = LT -> <<EntLt>>
      [] b = GT -> <<EntGt>>
      [] b = DQ -> <<EntQuot>>
      [] OTHER -> <<>>

EntityNoAmp(b) ==
    CASE b = LT -> <<EntLt>>
      [] b = GT -> <<EntGt>>
      [] b = DQ -> <<EntQuot>>
      [] b = SQ -> <<EntApos>>
      [] OTHER -> <<>>

Entity(b) ==
    CASE b = AMP -> <<EntAmp>>
      [] b = LT -> <<EntLt>>
      [] b = GT -> <<EntGt>>
      [] b = DQ -> <<EntQuot>>
      [] b = SQ -> <<EntApos>>
      [] OTHER -> <<>>

RECURSIVE EscLoopKeepStart(_, _, _, _)
EscLoopKeepStart(dest, bytes, i, start) ==
    IF i > Len(bytes) THEN dest \o SubSeq(bytes, start, Len(bytes))
    ELSE LET entity == Entity(bytes[i])
         IN IF entity # <<>>
            THEN EscLoopKeepStart(dest \o SubSeq(bytes, start, i - 1) \o entity[1],
                                  bytes, i + 1, start)
            ELSE EscLoopKeepStart(dest, bytes, i + 1, start)

RECURSIVE EscLoop(_, _, _, _)
EscLoop(dest, bytes, i, start) ==
    IF i > Len(bytes) THEN dest \o SubSeq(bytes, start, Len(bytes))
    ELSE LET entity == Entity(bytes[i])
         IN IF entity # <<>>
            THEN EscLoop(dest \o SubSeq(bytes, start, i - 1) \o entity[1],
                         bytes, i + 1, i + 1)
            ELSE EscLoop(dest, bytes, i + 1, start)

write_escaped(dest, src) ==
    IF ~(\E i \in 1..Len(src) : IsSpecial(src[i]))
    THEN dest \o src
    ELSE EscLoop(dest, src, 1, 1)

(***************************************************************************)
(* Element types of the catalog (src/src/html5.rs) used by the model: a    *)
(* container that takes text (b), a container that takes no text (html)    *)
(* and a void element (hr).                                                *)
(***************************************************************************)
TagTypes == {"B", "Html", "Hr"}

TagName(ty) ==
    CASE ty = "B" -> <<98>>
      [] ty = "Html" -> <<104, 116, 109, 108>>
      [] ty = "Hr" -> <<104, 114>>

CanAddChildren(ty) == ty \in {"B", "Html"}

CanAddText(ty) == ty \in {"B"}

CanAddAttributesAnyState(state) == state \in {"Open", "Content", "Void"}

CanAddAttributes(state) == state \in {"Open", "Void"}

Doctype == <<60, 33, 68, 79, 67, 84, 89, 80, 69, 32, 104, 116, 109, 108, 62>>

(***************************************************************************)
(* Node<Tag, State>: ty and state are the two type parameters, tag and buf *)
(* the two runtime fields.                                                 *)
(***************************************************************************)
Node(ty, tag, buf, state) == [ty |-> ty, tag |-> tag, buf |-> buf, state |-> state]

with_bufferDropsPrefix(ty, tag, buf) == Node(ty, tag, <<LT>> \o tag, "Open")

with_buffer(ty, tag, buf) == Node(ty, tag, Append(buf, LT) \o tag, "Open")

new(ty, tag) == with_buffer(ty, tag, <<>>)

new_self_closingNoBracket(ty, tag) == Node(ty, tag, tag, "Void")

new_self_closing(ty, tag) == Node(ty, tag, <<LT>> \o tag, "Void")

html == with_buffer("Html", TagName("Html"), Doctype)

closeKeepsOpen(n) == Node(n.ty, n.tag, n.buf \o <<GT>>, "Open")

close(n) == Node(n.ty, n.tag, n.buf \o <<GT>>, "Content")

attrRawValue(n, k, v) ==
    LET b1 == Append(n.buf, SP)
        b2 == write_normalized(b1, k)
        b3 == b2 \o <<EQ, DQ>>
        b4 == b3 \o v
    IN [n EXCEPT !.buf = Append(b4, DQ)]

attr(n, k, v) ==
    LET b1 == Append(n.buf, SP)
        b2 == write_normalized(b1, k)
        b3 == b2 \o <<EQ, DQ>>
        b4 == write_escaped(b3, v)
    IN [n EXCEPT !.buf = Append(b4, DQ)]

(***************************************************************************)
(* HasGlobalAttributes::data: the key is normalized to a string, prefixed  *)
(* and handed to attr, which normalizes the composed name once more.       *)
(***************************************************************************)
normalize_attr_name(k) ==
    [i \in 1..Len(k) |->
        IF k[i] >= UpperA /\ k[i] <= UpperZ THEN k[i] + CaseOffset
        ELSE IF k[i] = UNDERSCORE THEN HYPHEN
        ELSE k[i]]

DataPrefix == <<100, 97, 116, 97, 45>>

dataNoPrefix(n, key, value) == attr(n, normalize_attr_name(key), value)

data(n, key, value) == attr(n, DataPrefix \o normalize_attr_name(key), value)

flagEscaped(n, k) ==
    [n EXCEPT !.buf = write_escaped(Append(n.buf, SP), write_normalized(<<>>, k))]

flag(n, k) == [n EXCEPT !.buf = write_normalized(Append(n.buf, SP), k)]

(***************************************************************************)
(* Renderable: render_into appends the node to a buffer, render returns    *)
(* the node's own buffer closed.  An Open node closes itself first.        *)
(***************************************************************************)
render_into_contentNoSlash(n, buf) == ((buf \o n.buf) \o <<LT>>) \o n.tag \o <<GT>>

render_into_content(n, buf) == ((buf \o n.buf) \o <<LT, SLASH>>) \o n.tag \o <<GT>>

render_contentNoTag(n) == (n.buf \o <<LT, SLASH>>) \o <<GT>>

render_content(n) == (n.buf \o <<LT, SLASH>>) \o n.tag \o <<GT>>

render_into_voidNoSpace(n, buf) == (buf \o n.buf) \o <<SLASH, GT>>

render_into_void(n, buf) == (buf \o n.buf) \o <<SP, SLASH, GT>>

render_voidNoSpace(n) == n.buf \o <<SLASH, GT>>

render_void(n) == n.buf \o <<SP, SLASH, GT>>

render_into_open(n, buf) == render_into_content(close(n), buf)

render_openNoClose(n) == render_content(n)

render_open(n) == render_content(close(n))

render_into(n, buf) ==
    CASE n.state = "Open" -> render_into_open(n, buf)
      [] n.state = "Content" -> render_into_content(n, buf)
      [] n.state = "Void" -> render_into_void(n, buf)

render(n) ==
    CASE n.state = "Open" -> render_open(n)
      [] n.state = "Content" -> render_content(n)
      [] n.state = "Void" -> render_void(n)

(***************************************************************************)
(* Content operations, and the Open entry points that close first.         *)
(***************************************************************************)
childReplacesBuf(n, c) == [n EXCEPT !.buf = render_into(c, <<>>)]

child(n, c) == [n EXCEPT !.buf = render_into(c, n.buf)]

text(n, t) == [n EXCEPT !.buf = write_escaped(n.buf, t)]

rawEscaped(n, t) == [n EXCEPT !.buf = write_escaped(n.buf, t)]

raw(n, t) == [n EXCEPT !.buf = n.buf \o t]

open_child(n, c) == child(close(n), c)

open_textNoClose(n, t) == text(n, t)

open_text(n, t) == text(close(n), t)

open_raw(n, t) == raw(close(n), t)

(***************************************************************************)
(* Closures a caller passes: the mapping function of children, the         *)
(* producer of child_when and the transformation of map / map_when.  Each  *)
(* is named by an identifier and applied by the operator below it.         *)
(***************************************************************************)
NameA == <<65, 95, 206, 187>>
NameB == <<95, 62>>
ValueA == <<65, 34>>
ValueB == <<60>>
TextA == <<60, 95, 206, 187>>
RawA == <<LT, GT, AMP, DQ, SQ>>

Names == {NameA, NameB}
AttrArgs == {<<NameA, ValueB>>, <<NameB, ValueA>>}
TextArgs == {TextA}
RawArgs == {RawA}

to_string(i) == <<48 + i>>

ItemFuns == {"text_b", "attr_hr"}

ItemFun(f, item) ==
    CASE f = "text_b" -> open_text(new("B", TagName("B")), to_string(item))
      [] f = "attr_hr" -> attr(new_self_closing("Hr", TagName("Hr")), NameA, to_string(item))

Producers == {"text_b"}

Producer(p) ==
    CASE p = "text_b" -> open_text(new("B", TagName("B")), TextA)

MapFuns == {"attr", "fresh"}

MapFunApplies(f, n) ==
    CASE f = "attr" -> CanAddAttributes(n.state)
      [] f = "fresh" -> n.state = "Content" /\ n.ty = "B"

MapFun(f, n) ==
    CASE f = "attr" -> attr(n, NameA, ValueA)
      [] f = "fresh" -> close(new("B", TagName("B")))

RECURSIVE ChildrenLoop(_, _, _, _)
ChildrenLoop(n, iter, fun, i) ==
    IF i > Len(iter) THEN n
    ELSE LET elem == ItemFun(fun, iter[i])
         IN ChildrenLoop([n EXCEPT !.buf = render_into(elem, n.buf)], iter, fun, i + 1)

childrenSkipFirst(n, iter, fun) == ChildrenLoop(n, iter, fun, 2)

children(n, iter, fun) == ChildrenLoop(n, iter, fun, 1)

child_whenAlways(n, condition, f) == [n EXCEPT !.buf = render_into(Producer(f), n.buf)]

child_when(n, condition, f) ==
    IF condition THEN [n EXCEPT !.buf = render_into(Producer(f), n.buf)] ELSE n

open_children(n, iter, fun) == children(close(n), iter, fun)

open_child_when(n, condition, f) == child_when(close(n), condition, f)

map(n, fun) == MapFun(fun, n)

map_whenAlways(n, condition, fun) == MapFun(fun, n)

map_when(n, condition, fun) == IF condition THEN MapFun(fun, n) ELSE n

(***************************************************************************)
(* String::from_utf8 as render() uses it: it succeeds when the bytes are a *)
(* run of well-formed UTF-8 sequences of one to four bytes.  Utf8Width is  *)
(* the length of the well-formed sequence that starts at s[i], 0 when      *)
(* there is none.  A continuation byte never starts a sequence, so the     *)
(* bytes are such a run exactly when every other byte starts a well-formed *)
(* sequence and every continuation byte lies inside one.                   *)
(***************************************************************************)
Continuation(b) == b >= 128 /\ b <= 191

Utf8Width(s, i) ==
    LET b == s[i]
    IN IF b < 128 THEN 1
       ELSE IF /\ b >= 194 /\ b <= 223
               /\ i + 1 <= Len(s)
               /\ Continuation(s[i + 1])
            THEN 2
       ELSE IF /\ b >= 224 /\ b <= 239
               /\ i + 2 <= Len(s)
               /\ Continuation(s[i + 1])
               /\ b = 224 => s[i + 1] >= 160
               /\ b = 237 => s[i + 1] <= 159
               /\ Continuation(s[i + 2])
            THEN 3
       ELSE IF /\ b >= 240 /\ b <= 244
               /\ i + 3 <= Len(s)
               /\ Continuation(s[i + 1])
               /\ b = 240 => s[i + 1] >= 144
               /\ b = 244 => s[i + 1] <= 143
               /\ Continuation(s[i + 2])
               /\ Continuation(s[i + 3])
            THEN 4
       ELSE 0

from_utf8_ok(s) ==
    \A i \in 1..Len(s) :
        IF Continuation(s[i])
        THEN \E j \in 1..(i - 1) : ~Continuation(s[j]) /\ j + Utf8Width(s, j) > i
        ELSE Utf8Width(s, i) > 0

(***************************************************************************)
(* State.  A caller's builder expression is evaluated on a stack: the top  *)
(* frame is the node under construction, the frame below it the node that  *)
(* will take it as a child.  Each frame carries the node and, as history,  *)
(* how it was constructed and the calls made on it.  out holds the text    *)
(* returned by the terminal render().  psrc, pdest and phist are the state *)
(* of a caller that uses the escaper and the normalizer directly.          *)
(***************************************************************************)
VARIABLES stack, out, steps, psrc, pdest, phist

vars == <<stack, out, steps, psrc, pdest, phist>>

bvars == <<stack, out, steps>>

pvars == <<psrc, pdest, phist>>

Frame(n, ctor, prefix) == [node |-> n, log |-> <<>>, ctor |-> ctor, prefix |-> prefix]

Entry(op, k, v, iter, cs, cond, fn, before, after) ==
    [op |-> op, k |-> k, v |-> v, iter |-> iter, cs |-> cs, cond |-> cond, fn |-> fn,
     before |-> before, after |-> after]

Depth == Len(stack)

Top == stack[Depth]

Logged(f, e) == [f EXCEPT !.node = e.after, !.log = Append(f.log, e)]

AcceptsChild(n) == CanAddChildren(n.ty) /\ n.state \in {"Open", "Content"}

AcceptsText(n) == CanAddText(n.ty) /\ n.state \in {"Open", "Content"}

CanPush ==
    /\ out = <<>>
    /\ Depth < MaxDepth
    /\ steps + Depth <= MaxSteps
    /\ Depth > 0 => AcceptsChild(Top.node)

CanStep ==
    /\ out = <<>>
    /\ steps + Depth <= MaxSteps
    /\ Depth > 0

Push(f) ==
    /\ stack' = Append(stack, f)
    /\ UNCHANGED <<out, steps, pvars>>

Step(e) ==
    /\ stack' = [stack EXCEPT ![Depth] = Logged(Top, e)]
    /\ steps' = steps + 1
    /\ UNCHANGED <<out, pvars>>

CallerBuffers == {<<255>>}

ItemSeqs == {[i \in 1..n |-> i] : n \in {0, MaxItems}}

RECURSIVE ItemNodes(_, _, _)
ItemNodes(iter, fun, i) ==
    IF i > Len(iter) THEN <<>>
    ELSE <<Frame(ItemFun(fun, iter[i]), "closure", <<>>)>> \o ItemNodes(iter, fun, i + 1)

Init ==
    /\ stack = <<>>
    /\ out = <<>>
    /\ steps = 0
    /\ psrc = <<>>
    /\ pdest = <<>>
    /\ phist = <<>>

New(ty) ==
    /\ CanPush
    /\ Push(Frame(new(ty, TagName(ty)), "new", <<>>))

HtmlRoot ==
    /\ CanPush
    /\ Depth = 0
    /\ Push(Frame(html, "with_buffer", Doctype))

(* with_buffer is public and generic in the tag type: a caller may hand it *)
(* any Vec<u8>, which it takes as the start of the node's buffer.          *)
WithBuffer(ty, buf) ==
    /\ CanPush
    /\ Depth = 0
    /\ Push(Frame(with_buffer(ty, TagName(ty), buf), "with_buffer", buf))

NewSelfClosing(ty) ==
    /\ CanPush
    /\ Push(Frame(new_self_closing(ty, TagName(ty)), "new_self_closing", <<>>))

Close ==
    /\ CanStep
    /\ Top.node.state = "Open"
    /\ Step(Entry("close", <<>>, <<>>, <<>>, <<>>, TRUE, "", Top.node, close(Top.node)))

Attr(k, v) ==
    /\ CanStep
    /\ CanAddAttributes(Top.node.state)
    /\ Step(Entry("attr", k, v, <<>>, <<>>, TRUE, "", Top.node, attr(Top.node, k, v)))

Flag(k) ==
    /\ CanStep
    /\ CanAddAttributes(Top.node.state)
    /\ Step(Entry("flag", k, <<>>, <<>>, <<>>, TRUE, "", Top.node, flag(Top.node, k)))

Text(t) ==
    /\ CanStep
    /\ AcceptsText(Top.node)
    /\ Step(Entry("text", <<>>, t, <<>>, <<>>, TRUE, "", Top.node,
                  IF Top.node.state = "Open" THEN open_text(Top.node, t)
                  ELSE text(Top.node, t)))

Raw(t) ==
    /\ CanStep
    /\ AcceptsText(Top.node)
    /\ Step(Entry("raw", <<>>, t, <<>>, <<>>, TRUE, "", Top.node,
                  IF Top.node.state = "Open" THEN open_raw(Top.node, t)
                  ELSE raw(Top.node, t)))

Child ==
    /\ out = <<>>
    /\ Depth >= 2
    /\ steps < MaxSteps
    /\ LET c == Top.node
           pf == stack[Depth - 1]
           p == pf.node
           e == Entry("child", <<>>, <<>>, <<>>, <<Top>>, TRUE, "", p,
                      IF p.state = "Open" THEN open_child(p, c) ELSE child(p, c))
       IN /\ AcceptsChild(p)
          /\ stack' = Append(SubSeq(stack, 1, Depth - 2), Logged(pf, e))
    /\ steps' = steps + 1
    /\ UNCHANGED <<out, pvars>>

Children(iter, fun) ==
    /\ CanStep
    /\ AcceptsChild(Top.node)
    /\ Step(Entry("children", <<>>, <<>>, iter, ItemNodes(iter, fun, 1), TRUE, fun,
                  Top.node,
                  IF Top.node.state = "Open" THEN open_children(Top.node, iter, fun)
                  ELSE children(Top.node, iter, fun)))

ChildWhen(condition, f) ==
    /\ CanStep
    /\ AcceptsChild(Top.node)
    /\ Step(Entry("child_when", <<>>, <<>>, <<>>,
                  IF condition THEN <<Frame(Producer(f), "closure", <<>>)>> ELSE <<>>,
                  condition, f, Top.node,
                  IF Top.node.state = "Open" THEN open_child_when(Top.node, condition, f)
                  ELSE child_when(Top.node, condition, f)))

Map(fun) ==
    /\ CanStep
    /\ MapFunApplies(fun, Top.node)
    /\ Step(Entry("map", <<>>, <<>>, <<>>, <<>>, TRUE, fun, Top.node, map(Top.node, fun)))

MapWhen(condition, fun) ==
    /\ CanStep
    /\ MapFunApplies(fun, Top.node)
    /\ Step(Entry("map_when", <<>>, <<>>, <<>>, <<>>, condition, fun, Top.node,
                  map_when(Top.node, condition, fun)))

Render ==
    /\ out = <<>>
    /\ Depth = 1
    /\ out' = <<[frame |-> Top, text |-> render(Top.node),
                 ok |-> from_utf8_ok(render(Top.node))]>>
    /\ stack' = <<>>
    /\ UNCHANGED <<steps, pvars>>

Next ==
    \/ \E ty \in {"B"} : New(ty)
    \/ HtmlRoot
    \/ \E ty \in {"Hr"}, buf \in CallerBuffers : WithBuffer(ty, buf)
    \/ \E ty \in {"Hr"} : NewSelfClosing(ty)
    \/ Close
    \/ \E a \in AttrArgs : Attr(a[1], a[2])
    \/ \E k \in Names : Flag(k)
    \/ \E t \in TextArgs : Text(t)
    \/ \E t \in RawArgs : Raw(t)
    \/ Child
    \/ \E iter \in ItemSeqs, fun \in ItemFuns : Children(iter, fun)
    \/ \E c \in BOOLEAN, f \in Producers : ChildWhen(c, f)
    \/ \E fun \in MapFuns : Map(fun)
    \/ \E c \in BOOLEAN, fun \in MapFuns : MapWhen(c, fun)
    \/ Render

Spec == Init /\ [][Next]_vars

(***************************************************************************)
(* A caller of the escaper and the normalizer.  psrc is the &str passed,   *)
(* pdest the Vec<u8> written to, phist the calls made so far.  PText is    *)
(* text() on a Content node whose buffer is pdest.  PFeed turns what the   *)
(* last call appended into the next input, with a fresh buffer.            *)
(***************************************************************************)
Chars ==
    {<<AMP>>, <<LT>>, <<GT>>, <<DQ>>, <<SQ>>, <<UpperA>>, <<UpperZ>>, <<UNDERSCORE>>,
     <<64>>, <<91>>, <<97>>, <<206, 187>>}

RECURSIVE Flatten(_)
Flatten(cs) == IF cs = <<>> THEN <<>> ELSE Head(cs) \o Flatten(Tail(cs))

Inputs == {Flatten(cs) : cs \in UNION {[1..n -> Chars] : n \in 0..MaxLen}}

DestPrefixes == {<<LT, UpperA>>}

Call(fn, src, value, before, after) ==
    [fn |-> fn, src |-> src, value |-> value, before |-> before, after |-> after]

DataValues == {ValueA}

Appended(c) == SubSeq(c.after, Len(c.before) + 1, Len(c.after))

PureInit ==
    /\ stack = <<>>
    /\ out = <<>>
    /\ steps = 0
    /\ psrc \in Inputs
    /\ pdest \in DestPrefixes
    /\ phist = <<>>

PCall(fn, value, after) ==
    /\ phist # <<>> => phist[1].fn = fn
    /\ pdest' = after
    /\ phist' = Append(phist, Call(fn, psrc, value, pdest, after))
    /\ UNCHANGED <<psrc, bvars>>

PEscape ==
    /\ Len(phist) < MaxApply
    /\ PCall("escape", <<>>, write_escaped(pdest, psrc))

PNormalize ==
    /\ Len(phist) < MaxApply
    /\ PCall("normalize", <<>>, write_normalized(pdest, psrc))

PText ==
    /\ Len(phist) < MaxApply
    /\ PCall("text", <<>>, text(Node("B", TagName("B"), pdest, "Content"), psrc).buf)

PData(v) ==
    /\ Len(phist) < MaxApply
    /\ PCall("data", v, data(Node("B", TagName("B"), pdest, "Open"), psrc, v).buf)

PFeed ==
    /\ phist # <<>>
    /\ phist[1].fn \in {"escape", "normalize"}
    /\ Len(phist) < MaxApply
    /\ pdest # <<>>
    /\ psrc' = Appended(phist[Len(phist)])
    /\ pdest' = <<>>
    /\ UNCHANGED <<phist, bvars>>

PureNext == PEscape \/ PNormalize \/ PText \/ (\E v \in DataValues : PData(v)) \/ PFeed

PureSpec == PureInit /\ [][PureNext]_vars

(***************************************************************************)
(* Reference definitions the properties are stated against: the five       *)
(* entities, escaping as five successive whole-string replacements, and    *)
(* the byte classes of the normalizer.                                     *)
(***************************************************************************)
Entities == {EntAmp, EntLt, EntGt, EntQuot, EntApos}

HasSpecial(s) == \E i \in 1..Len(s) : s[i] \in {AMP, LT, GT, DQ, SQ}

RECURSIVE Replace(_, _, _)
Replace(s, b, ent) ==
    IF s = <<>> THEN <<>>
    ELSE (IF Head(s) = b THEN ent ELSE <<Head(s)>>) \o Replace(Tail(s), b, ent)

RefEscape(s) ==
    Replace(Replace(Replace(Replace(Replace(s, AMP, EntAmp), LT, EntLt), GT, EntGt),
                    DQ, EntQuot), SQ, EntApos)

IsPrefix(a, b) == Len(a) <= Len(b) /\ SubSeq(b, 1, Len(a)) = a

EscapedOnly(a) ==
    /\ \A i \in 1..Len(a) : a[i] \notin {LT, GT, DQ, SQ}
    /\ \A i \in 1..Len(a) :
           a[i] = AMP => \E ent \in Entities : SubSeq(a, i, i + Len(ent) - 1) = ent

Chained(i) == i + 1 <= Len(phist) /\ phist[i + 1].src = Appended(phist[i])

(* C5: whatever write_escaped (called directly, or through text()) appends *)
(* holds no literal less-than, greater-than, double quote or apostrophe,   *)
(* and every ampersand it appends begins one of the five entities; the     *)
(* bytes already in the buffer stay.                                       *)
C5_EscapedOutputSafe ==
    \A i \in 1..Len(phist) :
        phist[i].fn \in {"escape", "text"} =>
            /\ IsPrefix(phist[i].before, phist[i].after)
            /\ EscapedOnly(Appended(phist[i]))

C5_Witness ==
    \E i \in 1..Len(phist) :
        /\ phist[i].fn = "text"
        /\ phist[i].before # <<>>
        /\ \E a, b, c \in 1..Len(phist[i].src) :
               phist[i].src[a] = LT /\ phist[i].src[b] = SQ /\ phist[i].src[c] = AMP

(* C6: what write_escaped appends equals the reference escaping of its     *)
(* input (the five replacements, every other byte copied, the two bytes of *)
(* a two-byte character included), and equals the input itself when the    *)
(* input holds none of the five characters.                                *)
C6_EscapeMatchesReference ==
    \A i \in 1..Len(phist) :
        phist[i].fn = "escape" =>
            /\ phist[i].after = phist[i].before \o RefEscape(phist[i].src)
            /\ ~HasSpecial(phist[i].src) => Appended(phist[i]) = phist[i].src

C6_Witness ==
    \E i \in 1..Len(phist) :
        /\ phist[i].fn = "escape"
        /\ phist[i].before # <<>>
        /\ Len(phist[i].src) = 4
        /\ phist[i].src[1] = 206
        /\ phist[i].src[3] = AMP
        /\ phist[i].src[4] = GT

(* C7 as stated: escaping the escaped form of any string gives something   *)
(* different from the escaped form.                                        *)
C7_Original ==
    \A i \in 1..Len(phist) :
        (Chained(i) /\ phist[i].fn = "escape" /\ phist[i + 1].fn = "escape") =>
            Appended(phist[i + 1]) # Appended(phist[i])

(* C7 amended: escaping the escaped form of s gives something different    *)
(* exactly when s holds one of the five characters; for a string with none *)
(* of them both results equal s.                                           *)
C7_Amended ==
    \A i \in 1..Len(phist) :
        (Chained(i) /\ phist[i].fn = "escape" /\ phist[i + 1].fn = "escape") =>
            IF HasSpecial(phist[i].src)
            THEN Appended(phist[i + 1]) # Appended(phist[i])
            ELSE /\ Appended(phist[i + 1]) = Appended(phist[i])
                 /\ Appended(phist[i]) = phist[i].src

C7_Witness ==
    /\ Len(phist) = 2
    /\ Chained(1)
    /\ phist[1].fn = "escape"
    /\ phist[2].fn = "escape"
    /\ phist[1].src = <<LT, 97>>
    /\ Appended(phist[2]) = EntAmp \o <<108, 116, 59, 97>>

(* C8: write_normalized appends one byte per input byte: the lowercase     *)
(* letter for an ASCII uppercase letter, a hyphen for an underscore, the   *)
(* byte itself otherwise; its output holds no ASCII uppercase letter and   *)
(* no underscore, and normalizing it again changes nothing.                *)
C8_NormalizeFixedFunction ==
    \A i \in 1..Len(phist) :
        phist[i].fn = "normalize" =>
            LET s == phist[i].src
                a == Appended(phist[i])
            IN /\ IsPrefix(phist[i].before, phist[i].after)
               /\ Len(a) = Len(s)
               /\ \A j \in 1..Len(s) :
                      /\ s[j] \in 65..90 => a[j] = s[j] + 32
                      /\ s[j] = 95 => a[j] = 45
                      /\ s[j] \notin (65..90) \cup {95} => a[j] = s[j]
               /\ \A j \in 1..Len(a) : a[j] \notin (65..90) \cup {95}
               /\ (Chained(i) /\ phist[i + 1].fn = "normalize") =>
                      Appended(phist[i + 1]) = a

C8_Witness ==
    /\ Len(phist) = 2
    /\ Chained(1)
    /\ phist[1].fn = "normalize"
    /\ phist[2].fn = "normalize"
    /\ phist[1].src = <<UpperZ, UNDERSCORE, 206, 187>>
    /\ phist[2].src = <<122, HYPHEN, 206, 187>>

(***************************************************************************)
(* Reference rendering of a frame from the calls recorded in its log: the  *)
(* fragment each attribute call and each content call stands for.          *)
(***************************************************************************)
RefNormalize(k) ==
    [i \in 1..Len(k) |->
        IF k[i] \in 65..90 THEN k[i] + 32 ELSE IF k[i] = 95 THEN 45 ELSE k[i]]

RefAttrFrag(k, v) == <<32>> \o RefNormalize(k) \o <<61, 34>> \o RefEscape(v) \o <<34>>

RefFlagFrag(k) == <<32>> \o RefNormalize(k)

MapActs(e, fn) == e.op \in {"map", "map_when"} /\ e.cond /\ e.fn = fn

Replaced(f) == \E j \in 1..Len(f.log) : MapActs(f.log[j], "fresh")

IsAttrEntry(e) == e.op \in {"attr", "flag"} \/ MapActs(e, "attr")

IsContentEntry(e) ==
    e.op \in {"text", "raw", "child", "children", "child_when"}

RECURSIVE RenderedAll(_)
RenderedAll(cs) ==
    IF cs = <<>> THEN <<>> ELSE render(Head(cs).node) \o RenderedAll(Tail(cs))

AttrFrag(e) ==
    CASE e.op = "attr" -> RefAttrFrag(e.k, e.v)
      [] e.op = "flag" -> RefFlagFrag(e.k)
      [] MapActs(e, "attr") -> RefAttrFrag(NameA, ValueA)
      [] OTHER -> <<>>

ContentFrag(e) ==
    CASE e.op = "text" -> RefEscape(e.v)
      [] e.op = "raw" -> e.v
      [] e.op \in {"child", "children", "child_when"} -> RenderedAll(e.cs)
      [] OTHER -> <<>>

RECURSIVE AttrPart(_)
AttrPart(log) == IF log = <<>> THEN <<>> ELSE AttrFrag(Head(log)) \o AttrPart(Tail(log))

RECURSIVE ContentPart(_)
ContentPart(log) ==
    IF log = <<>> THEN <<>> ELSE ContentFrag(Head(log)) \o ContentPart(Tail(log))

CtorTag(f) == TagName(f.node.ty)

CloseTag(tag) == <<60, 47>> \o tag \o <<62>>

Contains(s, sub) == \E i \in 0..(Len(s) - Len(sub)) : SubSeq(s, i + 1, i + Len(sub)) = sub

Frames == {stack[i] : i \in 1..Depth} \cup {out[i].frame : i \in 1..Len(out)}

Ops(f) == [i \in 1..Len(f.log) |-> f.log[i].op]

(* C1: render() of a node made by new(tag), after any attribute calls, a   *)
(* close and any content calls, returns the opening angle bracket and the  *)
(* tag, the attribute and flag fragments in call order, the closing angle  *)
(* bracket, the child, text and raw fragments in call order, and the close *)
(* tag of the tag given at construction (no transformation having replaced *)
(* the node).                                                              *)
C1_ContentRenderExact ==
    \A i \in 1..Len(out) :
        LET f == out[i].frame
        IN (f.ctor = "new" /\ f.node.state \in {"Open", "Content"} /\ ~Replaced(f)) =>
               out[i].text = <<60>> \o CtorTag(f) \o AttrPart(f.log) \o <<62>>
                             \o ContentPart(f.log) \o CloseTag(CtorTag(f))

C1_Witness ==
    /\ out # <<>>
    /\ out[1].frame.ctor = "new"
    /\ Ops(out[1].frame) = <<"attr", "child", "text">>
    /\ out[1].frame.log[2].cs[1].node.state = "Void"

(* C2: render() and render_into() of a node made by new_self_closing(tag)  *)
(* emit the opening angle bracket and the tag, the attribute and flag      *)
(* fragments in call order and then space, slash, closing angle bracket;   *)
(* no close tag of the node is emitted, and a Void node takes no child,    *)
(* text or raw call.                                                       *)
VoidText(f) == <<60>> \o CtorTag(f) \o AttrPart(f.log) \o <<32, 47, 62>>

VoidInert ==
    (Depth > 0 /\ Top.node.state = "Void") =>
        /\ ~ENABLED (\E t \in TextArgs : Text(t))
        /\ ~ENABLED (\E t \in RawArgs : Raw(t))
        /\ ~ENABLED (\E iter \in ItemSeqs, fun \in ItemFuns : Children(iter, fun))
        /\ ~ENABLED (\E c \in BOOLEAN, p \in Producers : ChildWhen(c, p))
        /\ ~ENABLED (\E ty \in TagTypes : New(ty) \/ NewSelfClosing(ty))
        /\ ~ENABLED HtmlRoot
        /\ ~ENABLED Close

C2_VoidRenderExact ==
    /\ \A i \in 1..Len(out) :
           out[i].frame.node.state = "Void" =>
               /\ out[i].text = VoidText(out[i].frame)
               /\ ~Contains(out[i].text, CloseTag(CtorTag(out[i].frame)))
    /\ \A f \in Frames :
           /\ \A j \in 1..Len(f.log) :
                  LET e == f.log[j]
                  IN (e.op = "child" /\ e.cs[1].node.state = "Void") =>
                         /\ e.after.buf = e.before.buf
                                \o (IF e.before.state = "Open" THEN <<62>> ELSE <<>>)
                                \o VoidText(e.cs[1])
                         /\ ~Contains(VoidText(e.cs[1]), CloseTag(CtorTag(e.cs[1])))
           /\ f.node.state = "Void" =>
                  \A j \in 1..Len(f.log) :
                      /\ IsAttrEntry(f.log[j]) \/ (f.log[j].op = "map_when" /\ ~f.log[j].cond)
                      /\ f.log[j].after.state = "Void"
    /\ VoidInert

C2_Witness ==
    /\ out # <<>>
    /\ out[1].frame.node.state = "Void"
    /\ Ops(out[1].frame) = <<"attr", "flag">>
    /\ out[1].frame.log[1].k = NameB

(* C4: attr(name, value) appends a space, the normalized name, an equals   *)
(* sign and a double quote, the escaped value and a double quote, and      *)
(* changes nothing else of the node; the name is not escaped, the value is *)
(* not normalized, and the value portion holds no double quote.            *)
ValuePortion(e) ==
    SubSeq(e.after.buf, Len(e.before.buf) + Len(e.k) + 4, Len(e.after.buf) - 1)

C4_AttrAppendsExact ==
    \A f \in Frames :
        \A j \in 1..Len(f.log) :
            LET e == f.log[j]
            IN e.op = "attr" =>
                   /\ e.before.state \in {"Open", "Void"}
                   /\ e.after = [e.before EXCEPT !.buf = @ \o RefAttrFrag(e.k, e.v)]
                   /\ ValuePortion(e) = RefEscape(e.v)
                   /\ \A x \in 1..Len(ValuePortion(e)) : ValuePortion(e)[x] # 34

C4_Witness ==
    \E f \in Frames :
        \E j \in 1..Len(f.log) :
            /\ f.log[j].op = "attr"
            /\ f.log[j].k = <<95, 62>>
            /\ f.log[j].v = <<65, 34>>
            /\ f.log[j].after.buf = f.log[j].before.buf
                   \o <<32, 45, 62, 61, 34, 65>> \o EntQuot \o <<34>>
            /\ f.node.state = "Void"

(***************************************************************************)
(* Tag balance of a rendered text, read off the bytes alone: a scan that   *)
(* keeps the names of the start tags still open.  A tag runs from an       *)
(* opening angle bracket to the next closing one; it is a declaration when *)
(* it begins with an exclamation mark, a close tag when it begins with a   *)
(* slash (and must then name the innermost open tag), a void tag when it   *)
(* ends with space and slash, and a start tag otherwise.  A closing angle  *)
(* bracket outside a tag is an error.                                      *)
(***************************************************************************)
FindGT(s, i) ==
    LET S == {j \in i..Len(s) : s[j] = 62}
    IN IF S = {} THEN 0 ELSE CHOOSE j \in S : \A k \in S : j <= k

NameOf(inner) ==
    LET S == {j \in 1..Len(inner) : inner[j] = 32}
    IN IF S = {} THEN inner
       ELSE SubSeq(inner, 1, (CHOOSE j \in S : \A k \in S : j <= k) - 1)

RECURSIVE Scan(_, _, _)
Scan(s, i, open) ==
    IF i > Len(s) THEN open = <<>>
    ELSE IF s[i] = 62 THEN FALSE
    ELSE IF s[i] # 60 THEN Scan(s, i + 1, open)
    ELSE LET j == FindGT(s, i + 1)
             inner == SubSeq(s, i + 1, j - 1)
         IN IF j = 0 \/ inner = <<>> THEN FALSE
            ELSE IF \E x \in 1..Len(inner) : inner[x] = 60 THEN FALSE
            ELSE IF inner[1] = 33 THEN Scan(s, j + 1, open)
            ELSE IF inner[1] = 47
                 THEN /\ open # <<>>
                      /\ open[Len(open)] = Tail(inner)
                      /\ Scan(s, j + 1, SubSeq(open, 1, Len(open) - 1))
            ELSE IF Len(inner) >= 3 /\ SubSeq(inner, Len(inner) - 1, Len(inner)) = <<32, 47>>
                 THEN Scan(s, j + 1, open)
            ELSE Scan(s, j + 1, Append(open, NameOf(inner)))

Balanced(s) == Scan(s, 1, <<>>)

SafeName(k) == \A i \in 1..Len(k) : k[i] \notin {60, 62, 47, 34, 39}

SafeRaw(v) == \A i \in 1..Len(v) : v[i] \notin {60, 62}

RECURSIVE Trusted(_)
Trusted(f) ==
    \A j \in 1..Len(f.log) :
        /\ f.log[j].op \in {"attr", "flag"} => SafeName(f.log[j].k)
        /\ f.log[j].op = "raw" => SafeRaw(f.log[j].v)
        /\ \A x \in 1..Len(f.log[j].cs) : Trusted(f.log[j].cs[x])

FirstContent(f) ==
    LET S == {j \in 1..Len(f.log) : f.log[j].after.state = "Content"}
    IN IF S = {} THEN 0 ELSE CHOOSE j \in S : \A k \in S : j <= k

ContentInert ==
    (Depth > 0 /\ Top.node.state = "Content") =>
        /\ ~ENABLED (\E a \in AttrArgs : Attr(a[1], a[2]))
        /\ ~ENABLED (\E k \in Names : Flag(k))
        /\ ~ENABLED Map("attr")
        /\ ~ENABLED (\E c \in BOOLEAN : MapWhen(c, "attr"))

C9_AttrsOnlyInStartTag ==
    /\ \A f \in Frames :
           \A j \in 1..Len(f.log) :
               IsAttrEntry(f.log[j]) => f.log[j].before.state \in {"Open", "Void"}
    /\ \A f \in {g \in Frames : ~Replaced(g)} :
           LET c == FirstContent(f)
               gt == IF c = 0 THEN 0 ELSE Len(f.log[c].before.buf) + 1
           IN /\ \A j \in 1..Len(f.log) :
                     /\ IsAttrEntry(f.log[j]) =>
                            /\ f.log[j].before.state \in {"Open", "Void"}
                            /\ f.log[j].after.state = f.log[j].before.state
                            /\ c # 0 => (j < c /\ Len(f.log[j].after.buf) < gt)
                            /\ Len(f.log[j].after.buf) > Len(f.log[j].before.buf)
                     /\ IsContentEntry(f.log[j]) =>
                            /\ c # 0 /\ j >= c
                            /\ Len(f.log[j].before.buf) >= gt - 1
                            /\ IsPrefix(SubSeq(f.node.buf, 1, gt), f.log[j].after.buf)
              /\ c # 0 =>
                     /\ f.node.buf[gt] = 62
                     /\ SubSeq(f.node.buf, 1, gt)
                            = f.prefix \o <<60>> \o CtorTag(f) \o AttrPart(f.log) \o <<62>>
    /\ ContentInert

C9_Witness ==
    /\ Depth = 1
    /\ Ops(Top) = <<"attr", "flag", "text">>
    /\ Top.node.state = "Content"

(* C10: child, children, child_when, text and raw on an Open node first    *)
(* append the closing angle bracket of the start tag and then do what the  *)
(* same call does on the Content node so obtained, for every argument      *)
(* (an empty sequence and a false condition included); every content call  *)
(* leaves a Content node.                                                  *)
Closed(n) == [ty |-> n.ty, tag |-> n.tag, buf |-> n.buf \o <<62>>, state |-> "Content"]

OnContent(e, c) ==
    CASE e.op = "text" -> text(c, e.v)
      [] e.op = "raw" -> raw(c, e.v)
      [] e.op = "child" -> child(c, e.cs[1].node)
      [] e.op = "children" -> children(c, e.iter, e.fn)
      [] e.op = "child_when" -> child_when(c, e.cond, e.fn)

C10_OpenContentOpsCloseFirst ==
    \A f \in Frames :
        \A j \in 1..Len(f.log) :
            LET e == f.log[j]
            IN e.op \in {"text", "raw", "child", "children", "child_when"} =>
                   /\ e.after.state = "Content"
                   /\ e.before.state \in {"Open", "Content"}
                   /\ e.before.state = "Open" =>
                          /\ e.after = OnContent(e, Closed(e.before))
                          /\ IsPrefix(e.before.buf \o <<62>>, e.after.buf)
                   /\ e.before.state = "Content" => e.after = OnContent(e, e.before)
                   /\ (e.op = "children" /\ e.iter = <<>>) \/ (e.op = "child_when" /\ ~e.cond)
                          => e.after.buf = e.before.buf
                                \o (IF e.before.state = "Open" THEN <<62>> ELSE <<>>)

C10_Witness ==
    /\ Depth = 1
    /\ Ops(Top) = <<"flag", "child_when", "children">>
    /\ Top.log[2].before.state = "Open"
    /\ ~Top.log[2].cond
    /\ Top.log[2].after.buf = Top.log[1].after.buf \o <<62>>
    /\ Top.log[3].iter = <<>>
    /\ Top.node = Top.log[2].after

(***************************************************************************)
(* The frames a step keeps on the stack: a call on the top node and the    *)
(* attaching of a child leave every frame below the top in place, so       *)
(* position i holds the same node before and after the step.               *)
(***************************************************************************)
Retained == 1..(IF Len(stack') < Depth THEN Len(stack') ELSE Depth)

Transitions(log) ==
    {j \in 1..Len(log) : log[j].before.state = "Open" /\ log[j].after.state = "Content"}

LifecycleStep ==
    \A i \in Retained :
        LET a == stack[i].node
            b == stack'[i].node
            log == stack'[i].log
            grown == Len(log) = Len(stack[i].log) + 1
        IN /\ b.ty = a.ty /\ b.tag = a.tag
           /\ a.state = "Open" => b.state \in {"Open", "Content"}
           /\ a.state = "Content" => b.state = "Content"
           /\ a.state = "Void" => b.state = "Void"
           /\ CanAddAttributes(b.state) => CanAddAttributes(a.state)
           /\ (a.state = "Open" /\ b.state = "Content") =>
                  /\ grown
                  /\ IsPrefix(a.buf \o <<62>>, b.buf)
                  /\ Cardinality(Transitions(log)) = 1
           /\ (grown /\ log[Len(log)].op = "close") =>
                  /\ a.state = "Open"
                  /\ b.state = "Content"
                  /\ b.buf = a.buf \o <<62>>
           /\ Cardinality(Transitions(log)) <= 1

(* C11: along every step a node keeps its tag and moves only from Open to  *)
(* Content: the step that closes it appends the closing angle bracket      *)
(* first (close() appends that one byte and nothing else) and is the only  *)
(* such step in the node's log; a Content node stays Content, a Void node  *)
(* stays Void, and attribute calls never become applicable again.          *)
C11_LifecycleOneWay == [][LifecycleStep]_vars

C11_Witness ==
    /\ Depth = 1
    /\ Ops(Top) = <<"close", "text", "raw">>
    /\ Top.node.state = "Content"
    /\ Cardinality(Transitions(Top.log)) = 1

(***************************************************************************)
(* children against one child call per item, and against the renderings    *)
(* of the mapped items laid end to end.                                    *)
(***************************************************************************)
RECURSIVE ChildEach(_, _, _, _)
ChildEach(n, iter, fun, i) ==
    IF i > Len(iter) THEN n
    ELSE ChildEach(child(n, ItemFun(fun, iter[i])), iter, fun, i + 1)

RECURSIVE Renderings(_, _, _)
Renderings(iter, fun, i) ==
    IF i > Len(iter) THEN <<>>
    ELSE render(ItemFun(fun, iter[i])) \o Renderings(iter, fun, i + 1)

(* C12: children(sequence, f) on a Content node appends the renderings of  *)
(* f(x1), ..., f(xn) in iteration order with nothing before, between or    *)
(* after them, one mapped node per item; the node it returns is the one    *)
(* child(f(xi)) for each item in order returns, and an empty sequence      *)
(* leaves the buffer as it was.                                            *)
C12_ChildrenInOrder ==
    \A f \in Frames :
        \A j \in 1..Len(f.log) :
            LET e == f.log[j]
            IN (e.op = "children" /\ e.before.state = "Content") =>
                   /\ e.after = ChildEach(e.before, e.iter, e.fn, 1)
                   /\ e.after.buf = e.before.buf \o Renderings(e.iter, e.fn, 1)
                   /\ Len(e.cs) = Len(e.iter)
                   /\ \A x \in 1..Len(e.cs) : e.cs[x].node = ItemFun(e.fn, e.iter[x])
                   /\ e.iter = <<>> => e.after = e.before

C12_Witness ==
    /\ Depth = 1
    /\ Ops(Top) = <<"close", "children">>
    /\ Top.log[2].iter = <<1, 2>>
    /\ Top.log[2].fn = "text_b"
    /\ Top.node.buf = Top.log[2].before.buf
           \o <<60, 98, 62, 49, 60, 47, 98, 62>> \o <<60, 98, 62, 50, 60, 47, 98, 62>>

(* C13: child_when(condition, producer) with a true condition appends the  *)
(* rendering of the one node the producer returns; with a false condition  *)
(* no node is produced and no child byte is appended, so a Content node is *)
(* returned as it was (an Open node gains only its closing angle bracket). *)
C13_ChildWhenFrame ==
    \A f \in Frames :
        \A j \in 1..Len(f.log) :
            LET e == f.log[j]
                c == IF e.before.state = "Open" THEN Closed(e.before) ELSE e.before
            IN e.op = "child_when" =>
                   /\ e.cond =>
                          /\ Len(e.cs) = 1
                          /\ e.cs[1].node = Producer(e.fn)
                          /\ e.after = [c EXCEPT !.buf = @ \o render(Producer(e.fn))]
                   /\ ~e.cond =>
                          /\ e.cs = <<>>
                          /\ e.after = c
                          /\ e.before.state = "Content" => e.after = e.before

C13_Witness ==
    /\ Depth = 1
    /\ Ops(Top) = <<"close", "child_when", "child_when">>
    /\ ~Top.log[2].cond
    /\ Top.log[2].after = Top.log[2].before
    /\ Top.log[3].cond
    /\ Top.node.buf = Top.log[1].after.buf
           \o <<60, 98, 62>> \o EntLt \o <<95, 206, 187>> \o <<60, 47, 98, 62>>

(***************************************************************************)
(* What each transformation passed to map / map_when returns for a node,   *)
(* stated byte by byte.                                                    *)
(***************************************************************************)
Transformed(fn, n) ==
    CASE fn = "attr" -> [n EXCEPT !.buf = @ \o RefAttrFrag(NameA, ValueA)]
      [] fn = "fresh" -> [n EXCEPT !.buf = <<60>> \o n.tag \o <<62>>]

(* C14: map(f) returns f(node); map_when(true, f) returns f(node);         *)
(* map_when(false, f) returns the node with its tag, state and buffer as   *)
(* they were, whatever the state of the node.                              *)
C14_MapFrame ==
    \A f \in Frames :
        \A j \in 1..Len(f.log) :
            LET e == f.log[j]
            IN /\ e.op = "map" => e.after = Transformed(e.fn, e.before)
               /\ (e.op = "map_when" /\ e.cond) => e.after = Transformed(e.fn, e.before)
               /\ (e.op = "map_when" /\ ~e.cond) => e.after = e.before

C14_Witness ==
    /\ Depth = 1
    /\ Ops(Top) = <<"map_when", "map", "map_when">>
    /\ ~Top.log[1].cond
    /\ Top.log[3].cond
    /\ Top.log[1].after = Top.log[1].before
    /\ Top.node.state = "Open"
    /\ Top.node.buf = Top.log[1].before.buf
           \o RefAttrFrag(NameA, ValueA) \o RefAttrFrag(NameA, ValueA)

(* C15: raw(value) appends the bytes of value as they are and changes      *)
(* nothing else of the (closed) node; in the rendered text of the node     *)
(* they stand right after the content written before the call and right    *)
(* before the content written after it, or the close tag (no               *)
(* transformation having replaced the node).                               *)
C15_RawVerbatim ==
    /\ \A f \in Frames :
           \A j \in 1..Len(f.log) :
               LET e == f.log[j]
                   c == IF e.before.state = "Open" THEN Closed(e.before) ELSE e.before
               IN e.op = "raw" => e.after = [c EXCEPT !.buf = @ \o e.v]
    /\ \A i \in 1..Len(out) :
           LET f == out[i].frame
           IN \A j \in 1..Len(f.log) :
                  LET e == f.log[j]
                      c == IF e.before.state = "Open" THEN Closed(e.before) ELSE e.before
                  IN (e.op = "raw" /\ ~Replaced(f)) =>
                         out[i].text = c.buf \o e.v
                                       \o ContentPart(SubSeq(f.log, j + 1, Len(f.log)))
                                       \o CloseTag(CtorTag(f))

C15_Witness ==
    /\ out # <<>>
    /\ Ops(out[1].frame) = <<"text", "raw", "text">>
    /\ out[1].frame.log[2].v = <<60, 62, 38, 34, 39>>
    /\ out[1].text = <<60, 98, 62>> \o RefEscape(TextA) \o <<60, 62, 38, 34, 39>>
                     \o RefEscape(TextA) \o <<60, 47, 98, 62>>

(* C16: flag(name) on an Open or Void node appends a space and the         *)
(* normalized name, one byte per byte of the name, and changes nothing     *)
(* else: no equals sign or value follows, and every byte of the name that  *)
(* is neither an ASCII uppercase letter nor an underscore is appended as   *)
(* it is (a closing angle bracket included).                               *)
C16_FlagAppendsExact ==
    \A f \in Frames :
        \A j \in 1..Len(f.log) :
            LET e == f.log[j]
                a == SubSeq(e.after.buf, Len(e.before.buf) + 1, Len(e.after.buf))
            IN e.op = "flag" =>
                   /\ e.before.state \in {"Open", "Void"}
                   /\ e.after = [e.before EXCEPT !.buf = @ \o RefFlagFrag(e.k)]
                   /\ Len(a) = Len(e.k) + 1
                   /\ a[1] = 32
                   /\ \A x \in 1..Len(e.k) :
                          e.k[x] \notin (65..90) \cup {95} => a[x + 1] = e.k[x]

C16_Witness ==
    /\ out # <<>>
    /\ out[1].frame.ctor = "new"
    /\ Ops(out[1].frame) = <<"flag", "flag">>
    /\ out[1].frame.log[1].k = <<95, 62>>
    /\ out[1].text = <<60, 98, 32, 45, 62, 32, 97, 45, 206, 187, 62, 60, 47, 98, 62>>

(* C17: rendering an Open node, by render() or as a child by               *)
(* render_into(), gives what closing it and rendering the Content node     *)
(* gives: its buffer, a closing angle bracket and its close tag.  A node   *)
(* fresh from new(tag) renders as the empty element, and attaching an Open *)
(* child attaches the bytes attaching the closed child does.               *)
C17_OpenRendersAsClosed ==
    /\ \A i \in 1..Len(out) :
           LET f == out[i].frame
           IN f.node.state = "Open" =>
                  /\ out[i].text = f.node.buf \o <<62>> \o CloseTag(f.node.tag)
                  /\ out[i].text = render(Closed(f.node))
                  /\ (f.log = <<>> /\ f.ctor = "new") =>
                         out[i].text = <<60>> \o CtorTag(f) \o <<62>> \o CloseTag(CtorTag(f))
    /\ \A f \in Frames :
           \A j \in 1..Len(f.log) :
               LET e == f.log[j]
                   p == IF e.before.state = "Open" THEN Closed(e.before) ELSE e.before
               IN (e.op = "child" /\ e.cs[1].node.state = "Open") =>
                      LET c == e.cs[1].node
                      IN /\ e.after = child(p, Closed(c))
                         /\ e.after.buf = p.buf \o c.buf \o <<62>> \o CloseTag(c.tag)

C17_Witness ==
    /\ out # <<>>
    /\ out[1].frame.node.state = "Open"
    /\ out[1].frame.log = <<>>
    /\ out[1].frame.ctor = "new"
    /\ out[1].text = <<60, 98, 62, 60, 47, 98, 62>>

(* C18: every terminal render() returns text: the conversion of the bytes  *)
(* it built into a string never fails, whatever public constructors and    *)
(* operations built the node.                                              *)
C18_RenderReturnsText == \A i \in 1..Len(out) : out[i].ok


(***************************************************************************)
(* The places a byte string occurs in a text, and the trees built without  *)
(* a raw call.                                                             *)
(***************************************************************************)
Occurrences(s, sub) ==
    {i \in 0..(Len(s) - Len(sub)) : SubSeq(s, i + 1, i + Len(sub)) = sub}

RECURSIVE NoRaw(_)
NoRaw(f) ==
    \A j \in 1..Len(f.log) :
        /\ f.log[j].op # "raw"
        /\ \A x \in 1..Len(f.log[j].cs) : NoRaw(f.log[j].cs[x])

C20_DataComposesWithNormalize ==
    \A i \in 1..Len(phist) :
        phist[i].fn = "data" =>
            /\ phist[i].after = phist[i].before \o <<32>>
                   \o RefNormalize(DataPrefix \o phist[i].src)
                   \o <<61, 34>> \o RefEscape(phist[i].value) \o <<34>>
            /\ write_normalized(<<>>, DataPrefix \o normalize_attr_name(phist[i].src))
                   = write_normalized(<<>>, DataPrefix \o phist[i].src)

C20_Witness ==
    \E i \in 1..Len(phist) :
        /\ phist[i].fn = "data"
        /\ phist[i].src = <<90, 95, 206, 187>>
        /\ phist[i].value = <<65, 34>>
        /\ Appended(phist[i]) = <<32, 100, 97, 116, 97, 45, 122, 45, 206, 187, 61, 34, 65>>
                                \o EntQuot \o <<34>>

(***************************************************************************)
(* Every node a state holds: the nodes of the frames, the nodes before and *)
(* after each logged call, and the same for the children attached.         *)
(***************************************************************************)
RECURSIVE StartsWith(_, _)
StartsWith(f, start) ==
    /\ IsPrefix(start, f.node.buf)
    /\ \A j \in 1..Len(f.log) :
           /\ IsPrefix(start, f.log[j].before.buf)
           /\ IsPrefix(start, f.log[j].after.buf)
           /\ \A x \in 1..Len(f.log[j].cs) :
                  StartsWith(f.log[j].cs[x], <<60>> \o f.log[j].cs[x].node.tag)

(* C21 as stated: the buffer of every node, however constructed, begins    *)
(* with the opening angle bracket followed at once by the tag name.        *)
C21_Original == \A f \in Frames : StartsWith(f, <<60>> \o f.node.tag)

(* C21 amended: the buffer of every node begins with the bytes handed to   *)
(* with_buffer at construction (none for new and new_self_closing)         *)
(* followed at once by the opening angle bracket and the tag name, before  *)
(* and after every call made on it.                                        *)
C21_StartsWithPrefixAndTag ==
    \A f \in Frames :
        /\ StartsWith(f, f.prefix \o <<60>> \o f.node.tag)
        /\ f.ctor \in {"new", "new_self_closing", "closure"} => f.prefix = <<>>
        /\ f.node.tag = CtorTag(f)

C21_Witness ==
    /\ Depth = 2
    /\ stack[1].ctor = "with_buffer"
    /\ stack[1].prefix = Doctype
    /\ Ops(stack[1]) = <<"attr">>
    /\ stack[2].ctor = "new_self_closing"
    /\ Ops(stack[2]) = <<"flag">>
    /\ IsPrefix(Doctype \o <<60, 104, 116, 109, 108, 32>>, stack[1].node.buf)

(* C22 as stated: for every call on a node, map and map_when included, the *)
(* buffer before the call is a prefix of the buffer after it, and every    *)
(* intermediate buffer is a prefix of the text render() returns.           *)
C22_Original ==
    /\ \A f \in Frames :
           \A j \in 1..Len(f.log) : IsPrefix(f.log[j].before.buf, f.log[j].after.buf)
    /\ \A i \in 1..Len(out) :
           /\ IsPrefix(out[i].frame.node.buf, out[i].text)
           /\ \A j \in 1..Len(out[i].frame.log) :
                  IsPrefix(out[i].frame.log[j].before.buf, out[i].text)

(* C22 amended: for attr, flag, close, child, children, child_when, text,  *)
(* raw, render and map_when with a false condition the buffer before the   *)
(* call is a prefix of the buffer after it; map and map_when with a true   *)
(* condition return what the transformation returns, so the same holds for *)
(* them when the transformation only appends; for a node no transformation *)
(* has replaced, every intermediate buffer is a prefix of the node's       *)
(* buffer and of the text render() returns.                                *)
C22_AppendOnly ==
    /\ \A f \in Frames :
           /\ \A j \in 1..Len(f.log) :
                  LET e == f.log[j]
                  IN /\ ~MapActs(e, "fresh") =>
                            /\ IsPrefix(e.before.buf, e.after.buf)
                            /\ Len(e.after.buf) >= Len(e.before.buf)
                     /\ (e.op = "map_when" /\ ~e.cond) => e.after.buf = e.before.buf
                     /\ MapActs(e, "fresh") => e.after.buf = <<60>> \o e.before.tag \o <<62>>
           /\ ~Replaced(f) =>
                  \A j \in 1..Len(f.log) :
                      /\ IsPrefix(f.log[j].before.buf, f.node.buf)
                      /\ IsPrefix(f.log[j].after.buf, f.node.buf)
    /\ \A i \in 1..Len(out) :
           /\ IsPrefix(out[i].frame.node.buf, out[i].text)
           /\ Len(out[i].text) > Len(out[i].frame.node.buf)
           /\ ~Replaced(out[i].frame) =>
                  \A j \in 1..Len(out[i].frame.log) :
                      /\ IsPrefix(out[i].frame.log[j].before.buf, out[i].text)
                      /\ IsPrefix(out[i].frame.log[j].after.buf, out[i].text)

C22_Witness ==
    /\ out # <<>>
    /\ Ops(out[1].frame) = <<"flag", "raw", "children">>
    /\ Len(out[1].frame.log[3].iter) = 2
    /\ Len(out[1].frame.log[1].before.buf) < Len(out[1].frame.log[2].before.buf)
    /\ Len(out[1].frame.log[2].before.buf) < Len(out[1].frame.log[3].before.buf)
    /\ Len(out[1].frame.log[3].before.buf) < Len(out[1].frame.node.buf)
    /\ IsPrefix(out[1].frame.log[3].before.buf, out[1].text)


(***************************************************************************)
(* C23: render_into and render are the same logical operation.  For a      *)
(* child c in any lifecycle state (Open, Content, Void), child(c) on a     *)
(* Content parent appends to the parent's buffer exactly the text that     *)
(* c.render() returns standalone, and changes nothing else of the parent:  *)
(* its tag, its element type, its lifecycle state and its earlier bytes    *)
(* are unchanged.  The Open entry point delegates to the same operation    *)
(* after close(), so there the parent is the closed node (C10).            *)
(***************************************************************************)
ChildParent(e) == IF e.before.state = "Open" THEN Closed(e.before) ELSE e.before

C23_ChildAppendsRender ==
    \A f \in Frames : \A j \in 1..Len(f.log) :
        LET e == f.log[j]
            p == ChildParent(e)
        IN  e.op = "child" =>
                /\ Len(e.cs) = 1
                /\ e.cs[1].node.state \in {"Open", "Content", "Void"}
                /\ p.state = "Content"
                /\ e.after = [p EXCEPT !.buf = @ \o render(e.cs[1].node)]
                /\ e.after.tag = e.before.tag
                /\ IsPrefix(e.before.buf, e.after.buf)
                /\ e.before.state = "Content" =>
                       /\ e.after.state = e.before.state
                       /\ SubSeq(e.after.buf, Len(e.before.buf) + 1, Len(e.after.buf))
                              = render(e.cs[1].node)

C23_Witness ==
    /\ Depth = 1
    /\ Ops(Top) = <<"child", "child">>
    /\ Top.log[1].cs[1].node.state = "Void"
    /\ Top.log[2].before.state = "Content"
    /\ Top.log[2].cs[1].node.state = "Open"
    /\ Top.node.buf = (Top.log[2].before.buf \o Top.log[2].cs[1].node.buf)
                          \o <<GT, LT, SLASH>> \o Top.log[2].cs[1].node.tag \o <<GT>>

====
